---- MODULE Spec2Model ----
(***************************************************************************)
(* Viral-Scope: a DNA sequence classifier behind two HTTP front ends.      *)
(*   src/app.py        the persistent Flask server (has a train route)     *)
(*   src/api/index.py  the serverless handler (API-key protected)          *)
(*   src/deploy_model.py  the offline training script                      *)
(*                                                                         *)
(* Python strings are sequences of one-character strings.  Header values   *)
(* are sequences of atoms (see HeaderValues).  Fitted library objects      *)
(* (CountVectorizer, LogisticRegression) are records; what the library     *)
(* computes from them (labels, exceptions on unfitted objects) is drawn    *)
(* from an environment record the action chooses.                          *)
(***************************************************************************)
EXTENDS Integers, Sequences, FiniteSets, TLC

VARIABLES
    fe,          \* which program this process runs: "app" or "index"
    pc,          \* "boot" before load_model has run, "serving" after
    model,       \* global model       (app.py:19, api/index.py:14)
    vectorizer,  \* global vectorizer  (app.py:20, api/index.py:15)
    is_trained,  \* global is_trained  (app.py:21, api/index.py:16)
    disk,        \* the two pickle files under models/
    loads,       \* how many times load_model has run in this process
    ids,         \* how many training runs have created objects so far
    request,     \* the request handled last (sequential specification)
    response,    \* its response
    pre,         \* the globals as they were when that request arrived
    threads,     \* request threads of the concurrent specification
    sequence,    \* tokenizer specification: the input
    kmers        \* tokenizer specification: the three copies' outputs

vars == <<fe, pc, model, vectorizer, is_trained, disk, loads, ids,
          request, response, pre, threads, sequence, kmers>>

None == [tag |-> "None"]

(***************************************************************************)
(* Bounds.                                                                 *)
(***************************************************************************)
MaxSeqLen == 3      \* longest "sequence" field of a predict request
MaxKmerInput == 4   \* longest input of the tokenizer specification
MaxBatch == 2       \* longest batch_predict list
MaxTrain == 2       \* training runs per process

(***************************************************************************)
(* Strings.                                                                *)
(***************************************************************************)
\* One valid upper-case base, one valid lower-case base, whitespace, and a
\* letter outside the DNA alphabet.
Chars == {"A", "c", " ", "N"}

StringsUpTo(n) == UNION {[1..k -> Chars] : k \in 0..n}

\* str.upper() on one character
upper_char(ch) ==
    CASE ch = "a" -> "A" [] ch = "c" -> "C" [] ch = "g" -> "G"
      [] ch = "t" -> "T" [] ch = "n" -> "N" [] OTHER -> ch

\* str.upper()
upper(s) == [i \in 1..Len(s) |-> upper_char(s[i])]

isspace(ch) == ch = " "

RECURSIVE lstrip(_)
lstrip(s) == IF s # <<>> /\ isspace(Head(s)) THEN lstrip(Tail(s)) ELSE s

RECURSIVE rstrip(_)
rstrip(s) ==
    IF s # <<>> /\ isspace(s[Len(s)]) THEN rstrip(SubSeq(s, 1, Len(s) - 1)) ELSE s

\* str.strip()
strip(s) == rstrip(lstrip(s))

\* sep.join(parts)
RECURSIVE join(_, _)
join(sep, parts) ==
    IF parts = <<>> THEN <<>>
    ELSE IF Len(parts) = 1 THEN parts[1]
    ELSE parts[1] \o sep \o join(sep, Tail(parts))

\* range(n) as the 1-based index set of a list comprehension
range(n) == 1..(IF n > 0 THEN n ELSE 0)

(***************************************************************************)
(* The tokenizer, three copies.                                            *)
(***************************************************************************)
K == 3

get_kmers_short(seq, k) ==
    join(<<" ">>, [i \in range(Len(seq) - k) |-> SubSeq(seq, i, i + k - 1)])

\* app.py
get_kmers(seq, k) ==
    join(<<" ">>, [i \in range(Len(seq) - k + 1) |-> SubSeq(seq, i, i + k - 1)])

\* api/index.py
index_get_kmers(seq, k) ==
    join(<<" ">>, [i \in range(Len(seq) - k + 1) |-> SubSeq(seq, i, i + k - 1)])

\* deploy_model.py
deploy_get_kmers(seq, k) ==
    join(<<" ">>, [i \in range(Len(seq) - k + 1) |-> SubSeq(seq, i, i + k - 1)])

(***************************************************************************)
(* Library objects and the model store.                                    *)
(***************************************************************************)
\* CountVectorizer(): a new, unfitted vectorizer; id names the training run
\* that created it (0 is the artifact deployed with the program).
CountVectorizer(id) == [tag |-> "CountVectorizer", id |-> id, fitted |-> FALSE]

\* LogisticRegression(...): a new, unfitted classifier; once fitted, "on" is
\* the id of the vectorizer whose feature matrix it was fitted on.
LogisticRegression(id) ==
    [tag |-> "LogisticRegression", id |-> id, fitted |-> FALSE, on |-> -1]

fit_transform(v) == [v EXCEPT !.fitted = TRUE]
fit(m, X) == [m EXCEPT !.fitted = TRUE, !.on = X]

DeployedVectorizer == fit_transform(CountVectorizer(0))
DeployedModel == fit(LogisticRegression(0), 0)

\* A file that exists but does not unpickle.
Corrupt == [tag |-> "corrupt"]

\* The models/ directory when the process starts: nothing deployed, the
\* artifact deployed, one file only, or a file that does not unpickle.
InitialDisks ==
    { [model |-> None, vectorizer |-> None],
      [model |-> DeployedModel, vectorizer |-> DeployedVectorizer],
      [model |-> DeployedModel, vectorizer |-> None],
      [model |-> Corrupt, vectorizer |-> DeployedVectorizer],
      [model |-> DeployedModel, vectorizer |-> Corrupt] }

\* The globals of one process as a record, and back.
Globals ==
    [model |-> model, vectorizer |-> vectorizer, is_trained |-> is_trained,
     disk |-> disk, loads |-> loads, ids |-> ids]

SetGlobals(G) ==
    /\ model' = G.model
    /\ vectorizer' = G.vectorizer
    /\ is_trained' = G.is_trained
    /\ disk' = G.disk
    /\ loads' = G.loads
    /\ ids' = G.ids

load_model_flag_first(G) ==
    LET G1 == [G EXCEPT !.loads = @ + 1] IN
    IF G.disk.model # None /\ G.disk.vectorizer # None
    THEN IF G.disk.model = Corrupt THEN [G1 EXCEPT !.is_trained = TRUE]
         ELSE IF G.disk.vectorizer = Corrupt
              THEN [G1 EXCEPT !.model = G.disk.model, !.is_trained = TRUE]
              ELSE [G1 EXCEPT !.model = G.disk.model,
                              !.vectorizer = G.disk.vectorizer,
                              !.is_trained = TRUE]
    ELSE G1

\* app.py load_model: both files must exist; pickle.load of the model, then
\* of the vectorizer, then is_trained = True; an exception leaves what was
\* assigned before it.
load_model(G) ==
    LET G1 == [G EXCEPT !.loads = @ + 1] IN
    IF G.disk.model # None /\ G.disk.vectorizer # None
    THEN IF G.disk.model = Corrupt THEN G1
         ELSE IF G.disk.vectorizer = Corrupt
              THEN [G1 EXCEPT !.model = G.disk.model]
              ELSE [G1 EXCEPT !.model = G.disk.model,
                              !.vectorizer = G.disk.vectorizer,
                              !.is_trained = TRUE]
    ELSE G1

\* api/index.py load_model (run at module import)
index_load_model(G) ==
    LET G1 == [G EXCEPT !.loads = @ + 1] IN
    IF G.disk.model # None /\ G.disk.vectorizer # None
    THEN IF G.disk.model = Corrupt THEN G1
         ELSE IF G.disk.vectorizer = Corrupt
              THEN [G1 EXCEPT !.model = G.disk.model]
              ELSE [G1 EXCEPT !.model = G.disk.model,
                              !.vectorizer = G.disk.vectorizer,
                              !.is_trained = TRUE]
    ELSE G1

\* app.py save_model: the model file is written, then the vectorizer file;
\* "stop" says where an OSError interrupts it ("none": it completes).  A file
\* opened 'wb' whose dump fails is left truncated.
save_model(G, m, v, stop) ==
    IF stop = "makedirs" THEN G
    ELSE IF stop = "model_file" THEN [G EXCEPT !.disk.model = Corrupt]
    ELSE IF stop = "vectorizer_file"
    THEN [G EXCEPT !.disk = [model |-> m, vectorizer |-> Corrupt]]
    ELSE [G EXCEPT !.disk = [model |-> m, vectorizer |-> v]]

(***************************************************************************)
(* JSON bodies and headers.                                                *)
(***************************************************************************)
Str(s) == [t |-> "str", v |-> s]
List(l) == [t |-> "list", v |-> l]
Null == [t |-> "null"]
EmptyDict == <<>>

\* dict.get(key, default)
get(d, key, default) == IF key \in DOMAIN d THEN d[key] ELSE default

\* Header values are sequences of atoms: "Bearer " is the seven-character
\* prefix, the other atoms are pieces of keys that do not contain it.
API_KEY == <<"se", "cret">>
WRONG_KEY == <<"bad">>
Bearer == <<"Bearer ">>

\* str.replace('Bearer ', ''): every occurrence is removed
replace_bearer(s) == SelectSeq(s, LAMBDA a : a # "Bearer ")

\* headers.get(name) or rest: None and '' are both falsy
get_or(headers, name, rest) ==
    IF name \in DOMAIN headers /\ headers[name] # <<>> THEN headers[name] ELSE rest

Reply(code, body) ==
    [statusCode |-> code, body |-> body,
     handler |-> None, classified |-> 0]

\* api/index.py check_api_key: the 401 reply, or None when the key is accepted
check_api_key(headers) ==
    LET api_key ==
            get_or(headers, "X-Api-Key",
                get_or(headers, "x-api-key",
                    replace_bearer(get(headers, "Authorization", <<>>))))
    IN  IF api_key = <<>> \/ api_key # API_KEY
        THEN Reply(401, [success |-> FALSE,
                         error |-> "Invalid or missing API key. Please provide X-API-Key header or Bearer token."])
        ELSE None

\* The header sets a client sends: none, the secret or a wrong key under the
\* spellings of X-API-Key, and Authorization values with and without the
\* Bearer prefix.
HeaderDicts ==
    { <<>>,
      "X-Api-Key" :> API_KEY,
      "X-API-Key" :> API_KEY,
      "x-api-key" :> WRONG_KEY,
      "Authorization" :> (Bearer \o API_KEY),
      "authorization" :> (Bearer \o API_KEY),
      "Authorization" :> (<<"se">> \o Bearer \o <<"cret">>) }

(***************************************************************************)
(* What the library answers.  Calling predict or predict_proba on a        *)
(* classifier raises NotFittedError when it is not fitted; features from a *)
(* vectorizer other than the one it was fitted on raise ValueError when    *)
(* the vocabularies differ in size (env.compatible = FALSE) and are        *)
(* classified silently when they do not.                                   *)
(***************************************************************************)
LibPredict(m, X, env) ==
    IF ~m.fitted THEN "NotFittedError"
    ELSE IF m.on # X /\ ~env.compatible THEN "ValueError"
    ELSE "ok"

prediction_label(prediction) == IF prediction = 1 THEN "Coding" ELSE "Non-Coding"

(***************************************************************************)
(* app.py: the request handlers, one step per group of source lines that   *)
(* touches the globals at most once.  A handler works on a thread record   *)
(* th; a step maps the globals G and th to the next G and th.              *)
(***************************************************************************)
NewThread(route, data) ==
    [route |-> route, pc |-> "start", data |-> data, seq |-> <<>>, X |-> -1,
     prediction |-> -1, i |-> 1, results |-> <<>>, id |-> -1,
     classified |-> 0, mixed |-> FALSE, reply |-> None]

\* return jsonify(body), code
respond(th, code, body) ==
    [th EXCEPT !.pc = "done",
               !.reply = [statusCode |-> code, body |-> body,
                          handler |-> th.route, classified |-> th.classified]]

\* except Exception as e: return jsonify({'success': False, 'error': str(e)}), 500
except(th, e) == respond(th, 500, [success |-> FALSE, error |-> e])

Step(G, th) == [G |-> G, th |-> th]

health_check_by_model(G, th) ==
    Step(G, respond(th, 200, [status |-> "healthy", model_trained |-> G.model # None]))

health_check_reloading(G, th) ==
    Step(load_model(G),
         respond(th, 200, [status |-> "healthy", model_trained |-> G.is_trained]))

\* app.py health_check
health_check(G, th) ==
    Step(G, respond(th, 200, [status |-> "healthy", model_trained |-> G.is_trained]))

valid_bases_with_N == {"A", "T", "G", "C", "N"}

\* valid_bases = set('ATGC')
valid_bases == {"A", "T", "G", "C"}

all_valid(seq) == \A i \in 1..Len(seq) : seq[i] \in valid_bases

NotTrained_ignoring_flag(G) == G.model = None \/ G.vectorizer = None

\* if not is_trained or model is None or vectorizer is None
NotTrained(G) == ~G.is_trained \/ G.model = None \/ G.vectorizer = None

\* app.py predict
predict(G, th, env) ==
    CASE th.pc = "start" ->
            IF NotTrained(G)
            THEN Step(G, respond(th, 400,
                     [success |-> FALSE,
                      error |-> "Model not trained. Please train the model first."]))
            ELSE LET raw == get(th.data, "sequence", Str(<<>>)) IN
                 IF raw.t # "str" THEN Step(G, except(th, "AttributeError"))
                 ELSE LET seq == upper(strip(raw.v)) IN
                      IF seq = <<>>
                      THEN Step(G, respond(th, 400,
                               [success |-> FALSE, error |-> "Sequence is required"]))
                      ELSE IF ~all_valid(seq)
                      THEN Step(G, respond(th, 400,
                               [success |-> FALSE,
                                error |-> "Invalid DNA sequence. Only A, T, G, C are allowed."]))
                      ELSE Step(G, [th EXCEPT !.pc = "transform", !.seq = seq])
      [] th.pc = "transform" ->
            \* kmer_seq = get_kmers(sequence, k=3); X = vectorizer.transform([kmer_seq])
            IF ~G.vectorizer.fitted THEN Step(G, except(th, "NotFittedError"))
            ELSE Step(G, [th EXCEPT !.pc = "predict", !.X = G.vectorizer.id])
      [] th.pc = "predict" ->
            \* prediction = model.predict(X)[0]
            LET th1 == [th EXCEPT !.classified = @ + 1,
                                  !.mixed = @ \/ G.model.on # th.X]
                r == LibPredict(G.model, th.X, env) IN
            IF r # "ok" THEN Step(G, except(th1, r))
            ELSE Step(G, [th1 EXCEPT !.pc = "proba", !.prediction = env.labels[1]])
      [] th.pc = "proba" ->
            \* probability = model.predict_proba(X)[0]
            LET th1 == [th EXCEPT !.mixed = @ \/ G.model.on # th.X]
                r == LibPredict(G.model, th.X, env) IN
            IF r # "ok" THEN Step(G, except(th1, r))
            ELSE Step(G, respond(th1, 200,
                     [success |-> TRUE, sequence |-> th.seq,
                      prediction |-> th.prediction,
                      prediction_label |-> prediction_label(th.prediction)]))

normalize_item_unstripped(seq) == upper(seq)

\* seq = str(seq).strip().upper()
normalize_item(seq) == upper(strip(seq))

no_sequences_or_unusable_item(sequences) ==
    \/ sequences = <<>>
    \/ \E i \in 1..Len(sequences) :
          \/ ~all_valid(normalize_item(sequences[i]))
          \/ Len(normalize_item(sequences[i])) < K

\* if not sequences
no_sequences(sequences) == sequences = <<>>

\* app.py batch_predict
batch_predict(G, th, env) ==
    CASE th.pc = "start" ->
            IF NotTrained(G)
            THEN Step(G, respond(th, 400,
                     [success |-> FALSE,
                      error |-> "Model not trained. Please train the model first."]))
            ELSE LET sequences == get(th.data, "sequences", List(<<>>)) IN
                 IF no_sequences(sequences.v)
                 THEN Step(G, respond(th, 400,
                          [success |-> FALSE, error |-> "Sequences array is required"]))
                 ELSE Step(G, [th EXCEPT !.pc = "transform", !.i = 1])
      [] th.pc = "transform" ->
            \* seq = ...; kmer_seq = get_kmers(seq, k=3); X = vectorizer.transform([kmer_seq])
            IF ~G.vectorizer.fitted THEN Step(G, except(th, "NotFittedError"))
            ELSE Step(G, [th EXCEPT !.pc = "predict",
                                    !.seq = normalize_item(th.data["sequences"].v[th.i]),
                                    !.X = G.vectorizer.id])
      [] th.pc = "predict" ->
            LET th1 == [th EXCEPT !.classified = @ + 1,
                                  !.mixed = @ \/ G.model.on # th.X]
                r == LibPredict(G.model, th.X, env) IN
            IF r # "ok" THEN Step(G, except(th1, r))
            ELSE Step(G, [th1 EXCEPT !.pc = "proba", !.prediction = env.labels[th.i]])
      [] th.pc = "proba" ->
            LET th1 == [th EXCEPT !.mixed = @ \/ G.model.on # th.X]
                r == LibPredict(G.model, th.X, env)
                results == Append(th.results,
                               [sequence |-> th.seq, prediction |-> th.prediction,
                                prediction_label |-> prediction_label(th.prediction)]) IN
            IF r # "ok" THEN Step(G, except(th1, r))
            ELSE IF th.i < Len(th.data["sequences"].v)
            THEN Step(G, [th1 EXCEPT !.pc = "transform", !.i = @ + 1,
                                     !.results = results])
            ELSE Step(G, respond([th1 EXCEPT !.results = results], 200,
                     [success |-> TRUE, results |-> results, count |-> Len(results)]))

\* app.py train_model.  env.exists: os.path.exists(file_path); env.fault: the
\* library or file-system call that raises in this run, if any.
train_model(G, th, env) ==
    CASE th.pc = "start" ->
            \* file_path = data.get('file_path', 'Human Data Sequnence.txt')
            IF ~env.exists
            THEN Step(G, respond(th, 400, [success |-> FALSE, error |-> "File not found"]))
            ELSE Step(G, [th EXCEPT !.pc = "load"])
      [] th.pc = "load" ->
            \* df, seq_col, label_col = load_and_prepare_data(file_path)
            IF env.fault = "load" THEN Step(G, except(th, "ValueError"))
            ELSE Step(G, [th EXCEPT !.pc = "new_vectorizer"])
      [] th.pc = "new_vectorizer" ->
            \* vectorizer = CountVectorizer()
            Step([G EXCEPT !.vectorizer = CountVectorizer(G.ids + 1), !.ids = @ + 1],
                 [th EXCEPT !.pc = "fit_transform", !.id = G.ids + 1])
      [] th.pc = "fit_transform" ->
            \* X = vectorizer.fit_transform(df['kmer_seq'])
            IF env.fault = "fit_transform" THEN Step(G, except(th, "ValueError"))
            ELSE Step([G EXCEPT !.vectorizer = fit_transform(@)],
                      [th EXCEPT !.pc = "split", !.X = G.vectorizer.id])
      [] th.pc = "split" ->
            \* X_train, X_test, y_train, y_test = train_test_split(...)
            IF env.fault = "split" THEN Step(G, except(th, "ValueError"))
            ELSE Step(G, [th EXCEPT !.pc = "new_model"])
      [] th.pc = "new_model" ->
            \* model = LogisticRegression(max_iter=1000, class_weight='balanced')
            Step([G EXCEPT !.model = LogisticRegression(th.id)],
                 [th EXCEPT !.pc = "fit"])
      [] th.pc = "fit" ->
            \* model.fit(X_train, y_train)
            IF env.fault = "fit" THEN Step(G, except(th, "ValueError"))
            ELSE Step([G EXCEPT !.model = fit(@, th.X)], [th EXCEPT !.pc = "evaluate"])
      [] th.pc = "evaluate" ->
            \* y_pred = model.predict(X_test); accuracy = accuracy_score(y_test, y_pred)
            LET r == LibPredict(G.model, th.X, env) IN
            IF r # "ok" THEN Step(G, except(th, r))
            ELSE IF env.fault = "evaluate" THEN Step(G, except(th, "ValueError"))
            ELSE Step(G, [th EXCEPT !.pc = "save"])
      [] th.pc = "save" ->
            \* save_model(model, vectorizer)
            IF env.fault \in {"makedirs", "model_file", "vectorizer_file"}
            THEN Step(save_model(G, G.model, G.vectorizer, env.fault), except(th, "OSError"))
            ELSE Step(save_model(G, G.model, G.vectorizer, "none"),
                      [th EXCEPT !.pc = "set_trained"])
      [] th.pc = "set_trained" ->
            \* is_trained = True; return jsonify({...})
            Step([G EXCEPT !.is_trained = TRUE],
                 respond(th, 200, [success |-> TRUE, model_saved |-> TRUE]))

\* Flask's routing of (method, path) to a view function (the @app.route
\* decorators); a path with no view for the method is answered 405.
view_function(method, path) ==
    CASE method = "GET" /\ path = "/api/health" -> "health_check"
      [] method = "POST" /\ path = "/api/train" -> "train_model"
      [] method = "POST" /\ path = "/api/predict" -> "predict"
      [] method = "POST" /\ path = "/api/batch_predict" -> "batch_predict"
      [] OTHER -> "405"

\* One step of the view function a thread runs.
app_step(G, th, env) ==
    CASE th.route = "health_check" -> health_check(G, th)
      [] th.route = "train_model" -> train_model(G, th, env)
      [] th.route = "predict" -> predict(G, th, env)
      [] th.route = "batch_predict" -> batch_predict(G, th, env)
      [] OTHER -> Step(G, [th EXCEPT !.pc = "done",
                                     !.reply = Reply(405, [error |-> "Method Not Allowed"])])

\* A view function run from its first line to its return with no other
\* thread in between.
RECURSIVE app_run(_, _, _)
app_run(G, th, env) ==
    IF th.pc = "done" THEN Step(G, th)
    ELSE LET s == app_step(G, th, env) IN app_run(s.G, s.th, env)

(***************************************************************************)
(* api/index.py: the serverless handler.  Nothing assigns its globals      *)
(* after the import, so each method runs as one step.                       *)
(***************************************************************************)
IndexReply(code, body, handler, classified) ==
    [statusCode |-> code, body |-> body, handler |-> handler, classified |-> classified]

\* handler.handle_predict
handle_predict(G, data, env) ==
    IF NotTrained(G)
    THEN IndexReply(500, [success |-> FALSE,
                          error |-> "Model not loaded. Please contact administrator."],
                    "predict", 0)
    ELSE LET raw == get(data, "sequence", Str(<<>>)) IN
         IF raw.t # "str"
         THEN IndexReply(500, [success |-> FALSE, error |-> "AttributeError"], "predict", 0)
         ELSE LET seq == upper(strip(raw.v)) IN
              IF seq = <<>>
              THEN IndexReply(400, [success |-> FALSE, error |-> "Sequence is required"],
                              "predict", 0)
              ELSE IF ~all_valid(seq)
              THEN IndexReply(400,
                       [success |-> FALSE,
                        error |-> "Invalid DNA sequence. Only A, T, G, C are allowed."],
                       "predict", 0)
              ELSE IF ~G.vectorizer.fitted
              THEN IndexReply(500, [success |-> FALSE, error |-> "NotFittedError"],
                              "predict", 0)
              ELSE LET r == LibPredict(G.model, G.vectorizer.id, env) IN
                   IF r # "ok"
                   THEN IndexReply(500, [success |-> FALSE, error |-> r], "predict", 1)
                   ELSE IndexReply(200,
                            [success |-> TRUE, sequence |-> seq,
                             prediction |-> env.labels[1],
                             prediction_label |-> prediction_label(env.labels[1])],
                            "predict", 1)

\* handler.handle_batch_predict
handle_batch_predict(G, data, env) ==
    IF NotTrained(G)
    THEN IndexReply(500, [success |-> FALSE,
                          error |-> "Model not loaded. Please contact administrator."],
                    "batch_predict", 0)
    ELSE LET sequences == get(data, "sequences", List(<<>>)).v IN
         IF no_sequences(sequences)
         THEN IndexReply(400, [success |-> FALSE, error |-> "Sequences array is required"],
                         "batch_predict", 0)
         ELSE IF ~G.vectorizer.fitted
         THEN IndexReply(500, [success |-> FALSE, error |-> "NotFittedError"],
                         "batch_predict", 0)
         ELSE LET r == LibPredict(G.model, G.vectorizer.id, env)
                  results == [i \in 1..Len(sequences) |->
                                 [sequence |-> upper(strip(sequences[i])),
                                  prediction |-> env.labels[i],
                                  prediction_label |-> prediction_label(env.labels[i])]] IN
              IF r # "ok"
              THEN IndexReply(500, [success |-> FALSE, error |-> r], "batch_predict", 1)
              ELSE IndexReply(200,
                       [success |-> TRUE, results |-> results, count |-> Len(results)],
                       "batch_predict", Len(sequences))

\* handler.do_GET
do_GET(G, req) ==
    IF req.path = "/api/health"
    THEN Reply(200, [status |-> "healthy", model_trained |-> G.is_trained,
                     message |-> "API is running. Use X-API-Key header for authenticated endpoints."])
    ELSE Reply(404, [error |-> "Not found"])

\* handler.do_POST
do_POST(G, req, env) ==
    IF req.path = "/api/health"
    THEN Reply(200, [status |-> "healthy", model_trained |-> G.is_trained])
    ELSE LET auth_error == check_api_key(req.headers) IN
         IF auth_error # None THEN auth_error
         ELSE IF req.path = "/api/predict" THEN handle_predict(G, req.data, env)
         ELSE IF req.path = "/api/batch_predict" THEN handle_batch_predict(G, req.data, env)
         ELSE Reply(404, [error |-> "Not found"])

(***************************************************************************)
(* Requests and the environment's part in handling them.                   *)
(***************************************************************************)
\* Items of a batch: empty, a lower-case base, a letter outside the DNA
\* alphabet behind a space, a base before a space, and three characters
\* of which one is outside the DNA alphabet.
BatchItems == { <<>>, <<"c">>, <<" ", "n">>, <<"A", " ">>, <<"N", "c", "A">> }

BatchLists == UNION {[1..k -> BatchItems] : k \in 0..MaxBatch}

Bodies(path) ==
    CASE path = "/api/predict" ->
            {EmptyDict, "sequence" :> Null}
                \cup {"sequence" :> Str(s) : s \in StringsUpTo(MaxSeqLen)}
      [] path = "/api/batch_predict" ->
            {EmptyDict} \cup {"sequences" :> List(l) : l \in BatchLists}
      [] path = "/api/train" ->
            {EmptyDict, "file_path" :> Str(<<"d", "a", "t", "a">>)}
      [] OTHER -> {EmptyDict}

\* The bodies sent under every header set; the other bodies are sent with
\* the accepted key and with no key.
CommonBodies(path) ==
    CASE path = "/api/predict" ->
            {EmptyDict, "sequence" :> Str(<<"A", "c">>), "sequence" :> Str(<<"N">>)}
      [] path = "/api/batch_predict" ->
            {EmptyDict, "sequences" :> List(<< <<"c">> >>)}
      [] OTHER -> Bodies(path)

CommonHeaders == { <<>>, "X-Api-Key" :> API_KEY }

Routes ==
    { <<"GET", "/api/health">>, <<"POST", "/api/health">>,
      <<"POST", "/api/predict">>, <<"POST", "/api/batch_predict">>,
      <<"POST", "/api/train">> }

RequestsTo(method, path) ==
    { [method |-> method, path |-> path, headers |-> h, data |-> d] :
          h \in CommonHeaders, d \in Bodies(path) }
    \cup
    { [method |-> method, path |-> path, headers |-> h, data |-> d] :
          h \in HeaderDicts, d \in CommonBodies(path) }

Requests == UNION { RequestsTo(r[1], r[2]) : r \in Routes }

TrainFaults ==
    {"none", "load", "fit_transform", "split", "fit", "evaluate",
     "makedirs", "model_file", "vectorizer_file"}

NoEnv == [compatible |-> TRUE]

\* What the environment decides while a request of this view runs.
Envs(view, data) ==
    CASE view = "train_model" ->
            [exists : BOOLEAN, fault : TrainFaults, compatible : BOOLEAN]
      [] view = "predict" -> [labels : [1..1 -> {0, 1}], compatible : BOOLEAN]
      [] view = "batch_predict" ->
            [labels : [1..Len(get(data, "sequences", List(<<>>)).v) -> {0, 1}],
             compatible : BOOLEAN]
      [] OTHER -> {NoEnv}

Snapshot(G) == [model |-> G.model, vectorizer |-> G.vectorizer, is_trained |-> G.is_trained]

(***************************************************************************)
(* The sequential specification: one process, either program, handling    *)
(* one request at a time.                                                  *)
(***************************************************************************)
NotTokenizing == sequence = <<>> /\ kmers = None

Init ==
    /\ fe \in {"app", "index"}
    /\ pc = "boot"
    /\ model = None /\ vectorizer = None /\ is_trained = FALSE
    /\ disk \in InitialDisks
    /\ loads = 0 /\ ids = 0
    /\ request = None /\ response = None /\ pre = None
    /\ threads = None
    /\ NotTokenizing

\* app.py __main__: load_model(), then app.run(...)
Main ==
    /\ fe = "app" /\ pc = "boot"
    /\ SetGlobals(load_model(Globals))
    /\ pc' = "serving"
    /\ UNCHANGED <<fe, request, response, pre, threads, sequence, kmers>>

\* api/index.py module import: load_model()
Import ==
    /\ fe = "index" /\ pc = "boot"
    /\ SetGlobals(index_load_model(Globals))
    /\ pc' = "serving"
    /\ UNCHANGED <<fe, request, response, pre, threads, sequence, kmers>>

\* The persistent server runs the view function of a request to its return.
AppHandle(view) ==
    /\ fe = "app" /\ pc = "serving" /\ request = None
    /\ \E req \in Requests :
          /\ view_function(req.method, req.path) = view
          /\ view = "train_model" => ids < MaxTrain
          /\ \E env \in Envs(view, req.data) :
                LET s == app_run(Globals, NewThread(view, req.data), env) IN
                /\ SetGlobals(s.G)
                /\ request' = req
                /\ response' = s.th.reply
                /\ pre' = Snapshot(Globals)
    /\ UNCHANGED <<fe, pc, threads, sequence, kmers>>

HealthCheck == AppHandle("health_check")
TrainModel == AppHandle("train_model")
Predict == AppHandle("predict")
BatchPredict == AppHandle("batch_predict")
MethodNotAllowed == AppHandle("405")

index_view(path) ==
    CASE path = "/api/predict" -> "predict"
      [] path = "/api/batch_predict" -> "batch_predict"
      [] OTHER -> "none"

\* The serverless handler answers a GET.
DoGET ==
    /\ fe = "index" /\ pc = "serving" /\ request = None
    /\ \E req \in Requests :
          /\ req.method = "GET"
          /\ request' = req
          /\ response' = do_GET(Globals, req)
          /\ pre' = Snapshot(Globals)
    /\ UNCHANGED <<fe, pc, model, vectorizer, is_trained, disk, loads, ids,
                   threads, sequence, kmers>>

\* The serverless handler answers a POST.
DoPOST ==
    /\ fe = "index" /\ pc = "serving" /\ request = None
    /\ \E req \in Requests :
          /\ req.method = "POST"
          /\ \E env \in Envs(index_view(req.path), req.data) :
                /\ request' = req
                /\ response' = do_POST(Globals, req, env)
                /\ pre' = Snapshot(Globals)
    /\ UNCHANGED <<fe, pc, model, vectorizer, is_trained, disk, loads, ids,
                   threads, sequence, kmers>>

\* The response has been written; the process waits for the next request.
Sent ==
    /\ request # None
    /\ request' = None /\ response' = None /\ pre' = None
    /\ UNCHANGED <<fe, pc, model, vectorizer, is_trained, disk, loads, ids,
                   threads, sequence, kmers>>

Next ==
    \/ Main \/ Import
    \/ HealthCheck \/ TrainModel \/ Predict \/ BatchPredict \/ MethodNotAllowed
    \/ DoGET \/ DoPOST
    \/ Sent

Spec == Init /\ [][Next]_vars

(***************************************************************************)
(* The concurrent specification: the persistent server (app.run is         *)
(* threaded) with its view functions interleaved step by step on the       *)
(* unlocked globals.                                                       *)
(***************************************************************************)
Threads == {"t1", "t2"}

IdleThread == [route |-> "none", pc |-> "idle"]

Running(th) == th.pc \notin {"idle", "done"}

\* The requests the threads serve: one of each view.
RaceBodies(view) ==
    CASE view = "predict" -> {"sequence" :> Str(<<"A", "c">>)}
      [] view = "batch_predict" -> {"sequences" :> List(<< <<"c">>, <<"A", " ">> >>)}
      [] OTHER -> {EmptyDict}

Views == {"health_check", "train_model", "predict", "batch_predict"}

\* Training runs begun or about to create their vectorizer.
TrainingsBegun ==
    ids + Cardinality({t \in Threads :
                          /\ threads[t].route = "train_model"
                          /\ threads[t].pc \in {"start", "load", "new_vectorizer"}})

\* The directories that make load_model end differently.
RaceDisks ==
    { d \in InitialDisks :
          d.model # Corrupt /\ (d.model = None <=> d.vectorizer = None) }

InitRace ==
    /\ fe = "app"
    /\ pc = "boot"
    /\ model = None /\ vectorizer = None /\ is_trained = FALSE
    /\ disk \in RaceDisks
    /\ loads = 0 /\ ids = 0
    /\ request = None /\ response = None /\ pre = None
    /\ threads = [t \in Threads |-> IdleThread]
    /\ NotTokenizing

\* A thread takes a request and enters its view function.
Accept(t) ==
    /\ pc = "serving" /\ threads[t].pc = "idle"
    /\ \E view \in Views :
          /\ view = "train_model" => TrainingsBegun < MaxTrain
          /\ \E data \in RaceBodies(view) :
                threads' = [threads EXCEPT ![t] = NewThread(view, data)]
    /\ UNCHANGED <<fe, pc, model, vectorizer, is_trained, disk, loads, ids,
                   request, response, pre, sequence, kmers>>

\* The calls that can raise at each step of train_model.
FaultsAt(step) ==
    CASE step = "load" -> {"load"}
      [] step = "fit_transform" -> {"fit_transform"}
      [] step = "split" -> {"split"}
      [] step = "fit" -> {"fit"}
      [] step = "evaluate" -> {"evaluate"}
      [] step = "save" -> {"makedirs", "model_file", "vectorizer_file"}
      [] OTHER -> {}

\* What the environment decides during one step: the part of Envs the step reads.
StepEnvs(th) ==
    IF th.route = "train_model"
    THEN { e \in Envs(th.route, th.data) :
              /\ e.fault \in {"none"} \cup FaultsAt(th.pc)
              /\ th.pc # "start" => e.exists
              /\ th.pc # "evaluate" => e.compatible }
    ELSE IF th.route \in {"predict", "batch_predict"}
    THEN { e \in Envs(th.route, th.data) :
              /\ th.pc \notin {"predict", "proba"} => e.compatible
              /\ \A i \in DOMAIN e.labels :
                    (th.pc # "predict" \/ i # th.i) => e.labels[i] = 0 }
    ELSE Envs(th.route, th.data)

\* A thread runs the next step of its view function.
Run(t, view) ==
    /\ threads[t].route = view /\ Running(threads[t])
    /\ \E env \in StepEnvs(threads[t]) :
          LET s == app_step(Globals, threads[t], env) IN
          /\ SetGlobals(s.G)
          /\ threads' = [threads EXCEPT ![t] = s.th]
    /\ UNCHANGED <<fe, pc, request, response, pre, sequence, kmers>>

RunHealthCheck == \E t \in Threads : Run(t, "health_check")
RunTrainModel == \E t \in Threads : Run(t, "train_model")
RunPredict == \E t \in Threads : Run(t, "predict")
RunBatchPredict == \E t \in Threads : Run(t, "batch_predict")

\* A thread has written its response and waits for the next request.
Return(t) ==
    /\ threads[t].pc = "done"
    /\ threads' = [threads EXCEPT ![t] = IdleThread]
    /\ UNCHANGED <<fe, pc, model, vectorizer, is_trained, disk, loads, ids,
                   request, response, pre, sequence, kmers>>

NextRace ==
    \/ Main
    \/ \E t \in Threads : Accept(t)
    \/ RunHealthCheck \/ RunTrainModel \/ RunPredict \/ RunBatchPredict
    \/ \E t \in Threads : Return(t)

SpecRace == InitRace /\ [][NextRace]_vars

(***************************************************************************)
(* Tokenizer specification: every input up to MaxKmerInput, tokenized by   *)
(* each copy with the k the callers pass.                                  *)
(***************************************************************************)
Idle == [fe |-> None, pc |-> None, model |-> None, vectorizer |-> None,
         is_trained |-> FALSE, disk |-> None, loads |-> 0, ids |-> 0,
         request |-> None, response |-> None, pre |-> None, threads |-> None]

ServerIdle ==
    /\ fe = Idle.fe /\ pc = Idle.pc /\ model = Idle.model
    /\ vectorizer = Idle.vectorizer /\ is_trained = Idle.is_trained
    /\ disk = Idle.disk /\ loads = Idle.loads /\ ids = Idle.ids
    /\ request = Idle.request /\ response = Idle.response /\ pre = Idle.pre
    /\ threads = Idle.threads

InitKmers ==
    /\ ServerIdle
    /\ sequence \in StringsUpTo(MaxKmerInput)
    /\ kmers = None

Tokenize ==
    /\ kmers = None
    /\ kmers' = [app |-> get_kmers(sequence, K),
                 index |-> index_get_kmers(sequence, K),
                 deploy |-> deploy_get_kmers(sequence, K)]
    /\ UNCHANGED <<fe, pc, model, vectorizer, is_trained, disk, loads, ids,
                   request, response, pre, threads, sequence>>

NextKmers == Tokenize

SpecKmers == InitKmers /\ [][NextKmers]_vars

\* The tokens of a space-joined string: its maximal runs of non-space characters.
RECURSIVE Tokens(_)
Tokens(s) ==
    IF s = <<>> THEN <<>>
    ELSE IF Head(s) = " " THEN Tokens(Tail(s))
    ELSE LET n == CHOOSE j \in 1..Len(s) :
                     /\ \A i \in 1..j : s[i] # " "
                     /\ (j = Len(s) \/ s[j + 1] = " ")
         IN <<SubSeq(s, 1, n)>> \o Tokens(SubSeq(s, n + 1, Len(s)))

KmerContract(out, seq) ==
    LET toks == Tokens(out) IN
    /\ Len(toks) = Len(seq) - 2
    /\ \A i \in 1..Len(toks) : Len(toks[i]) = 3 /\ toks[i] = SubSeq(seq, i, i + 2)

CopiesAgree == kmers.app = kmers.index /\ kmers.index = kmers.deploy

NoSpace(s) == \A i \in 1..Len(s) : s[i] # " "

\* C7 as stated: for every sequence of length L >= 3, get_kmers(sequence, 3)
\* yields exactly L-2 space-separated tokens of length 3, the i-th being the
\* substring at offsets i..i+2, and the three copies agree.
C7_AnySequence ==
    (kmers # None /\ Len(sequence) >= 3) =>
        /\ KmerContract(kmers.app, sequence)
        /\ KmerContract(kmers.index, sequence)
        /\ KmerContract(kmers.deploy, sequence)
        /\ CopiesAgree

\* C7 amended: the same, for every sequence of length L >= 3 that contains no
\* space character (a space inside the input splits a window into two tokens).
C7_SpaceFreeSequence ==
    (kmers # None /\ Len(sequence) >= 3 /\ NoSpace(sequence)) =>
        /\ KmerContract(kmers.app, sequence)
        /\ KmerContract(kmers.index, sequence)
        /\ KmerContract(kmers.deploy, sequence)
        /\ CopiesAgree

C7_Witness ==
    /\ kmers # None
    /\ Len(sequence) = 4
    /\ NoSpace(sequence)
    /\ sequence[1] # sequence[4]
    /\ Len(Tokens(kmers.app)) = 2

(***************************************************************************)
(* Vocabulary of the properties below, stated from the client's side.      *)
(***************************************************************************)
Handled == request # None

\* HTTP header names are case-insensitive.
LowerName(n) ==
    CASE n \in {"X-API-Key", "X-Api-Key", "x-api-key"} -> "x-api-key"
      [] n \in {"Authorization", "authorization"} -> "authorization"
      [] OTHER -> n

\* The request carries the secret the documented way.
CarriesSecret(headers) ==
    \E n \in DOMAIN headers :
        \/ LowerName(n) = "x-api-key" /\ headers[n] = API_KEY
        \/ LowerName(n) = "authorization" /\ headers[n] = Bearer \o API_KEY

\* Some key the request presents equals the secret.
PresentsSecret(headers) ==
    \E n \in DOMAIN headers :
        \/ LowerName(n) = "x-api-key" /\ headers[n] = API_KEY
        \/ LowerName(n) = "authorization" /\ headers[n] \in {API_KEY, Bearer \o API_KEY}

Protected(req) ==
    req.method = "POST" /\ req.path \in {"/api/predict", "/api/batch_predict", "/api/train"}

\* The request carries a key that the key check accepts.
Authenticated(req) == check_api_key(req.headers) = None

Loaded(snapshot) ==
    snapshot.is_trained /\ snapshot.model # None /\ snapshot.vectorizer # None

IsBlank(s) == \A i \in 1..Len(s) : s[i] = " "

\* The string without its leading and trailing spaces.
Trimmed(s) ==
    IF IsBlank(s) THEN <<>>
    ELSE LET first == CHOOSE i \in 1..Len(s) : s[i] # " " /\ \A j \in 1..(i - 1) : s[j] = " "
             last == CHOOSE i \in 1..Len(s) : s[i] # " " /\ \A j \in (i + 1)..Len(s) : s[j] = " "
         IN SubSeq(s, first, last)

Capital(ch) ==
    CASE ch = "a" -> "A" [] ch = "c" -> "C" [] ch = "g" -> "G" [] ch = "t" -> "T"
      [] ch = "n" -> "N" [] OTHER -> ch

Normalized(s) == [i \in 1..Len(Trimmed(s)) |-> Capital(Trimmed(s)[i])]

HasForeignChar(s) ==
    \E i \in 1..Len(Trimmed(s)) : Trimmed(s)[i] \notin {"A", "T", "G", "C", "a", "t", "g", "c"}

(***************************************************************************)
(* C1 .. C6                                                                *)
(***************************************************************************)
\* C1: on either front end, a request to predict, batch_predict or train
\* whose key is missing or differs from the secret is answered 401 and no
\* prediction or training handler runs for it.
C1_UnauthorizedRejected ==
    (Handled /\ Protected(request) /\ ~PresentsSecret(request.headers)) =>
        (response.statusCode = 401 /\ response.handler = None)

\* C2: a request to a protected route that carries the secret in X-API-Key or
\* as Authorization: Bearer <key>, under any spelling of the header name, is
\* never answered 401.
C2_SecretAccepted ==
    (Handled /\ Protected(request) /\ CarriesSecret(request.headers)) =>
        response.statusCode # 401

\* C3: with no model loaded, every authenticated POST /api/predict is answered
\* 500 with a success:false not-trained / not-loaded error, on both front
\* ends, and no classifier runs.
C3_NoModelIs500 ==
    (/\ Handled /\ request.method = "POST" /\ request.path = "/api/predict"
     /\ Authenticated(request) /\ ~Loaded(pre)) =>
        /\ response.statusCode = 500
        /\ response.body.success = FALSE
        /\ response.body.error \in
              {"Model not trained. Please train the model first.",
               "Model not loaded. Please contact administrator."}
        /\ response.classified = 0

PredictOfString ==
    /\ Handled /\ request.method = "POST" /\ request.path = "/api/predict"
    /\ Authenticated(request) /\ Loaded(pre)
    /\ get(request.data, "sequence", Str(<<>>)).t = "str"

\* C4: an authenticated POST /api/predict handled with a model loaded is
\* answered 400 'Sequence is required' when the trimmed sequence is empty or
\* the field is missing, 400 'Invalid DNA sequence...' when it holds a
\* character outside A, T, G, C (in either case), and the classifier runs
\* only when neither is so.
C4_PredictValidation ==
    PredictOfString =>
        LET raw == get(request.data, "sequence", Str(<<>>)).v IN
        /\ IsBlank(raw) =>
              /\ response.statusCode = 400
              /\ response.body.error = "Sequence is required"
        /\ (~IsBlank(raw) /\ HasForeignChar(raw)) =>
              /\ response.statusCode = 400
              /\ response.body.error = "Invalid DNA sequence. Only A, T, G, C are allowed."
        /\ (response.classified > 0 \/ response.statusCode = 200) =>
              (~IsBlank(raw) /\ ~HasForeignChar(raw))

\* A lower-case sequence was classified.
C4_Witness ==
    /\ PredictOfString
    /\ request.data = ("sequence" :> Str(<<"c", "A", "c">>))
    /\ response.statusCode = 200
    /\ response.body.sequence = <<"C", "A", "C">>

\* C5: a successful batch_predict response has count equal to the number of
\* sequences sent, one result per sequence in the order sent, each result's
\* sequence being the trimmed, upper-cased item.
C5_BatchCount ==
    (/\ Handled /\ request.path = "/api/batch_predict"
     /\ response.statusCode = 200 /\ response.body.success) =>
        LET sequences == request.data["sequences"].v IN
        /\ response.body.count = Len(sequences)
        /\ Len(response.body.results) = Len(sequences)
        /\ \A i \in 1..Len(sequences) :
              response.body.results[i].sequence = Normalized(sequences[i])

C5_Witness ==
    /\ Handled /\ request.path = "/api/batch_predict"
    /\ request.data = ("sequences" :> List(<< <<" ", "n">>, <<"c">> >>))
    /\ response.statusCode = 200
    /\ response.body.count = 2
    /\ response.body.results[1].sequence = <<"N">>

\* C6: GET /api/health, with or without a key, is answered 200 'healthy' with
\* model_trained equal to is_trained, and leaves model, vectorizer and
\* is_trained as they were.
C6_HealthOpen ==
    (Handled /\ request.method = "GET" /\ request.path = "/api/health") =>
        /\ response.statusCode = 200
        /\ response.body.status = "healthy"
        /\ response.body.model_trained = pre.is_trained
        /\ response.body.model_trained = is_trained
        /\ Snapshot(Globals) = pre

\* Health answered without a key, by a process whose load stopped half way.
C6_Witness ==
    /\ Handled /\ request.method = "GET" /\ request.path = "/api/health"
    /\ request.headers = <<>>
    /\ model # None /\ ~is_trained
    /\ response.statusCode = 200

(***************************************************************************)
(* C8                                                                      *)
(***************************************************************************)
Outcome(reply) ==
    [statusCode |-> reply.statusCode,
     success |-> IF "success" \in DOMAIN reply.body THEN reply.body.success ELSE TRUE]

PreGlobals ==
    [model |-> pre.model, vectorizer |-> pre.vectorizer, is_trained |-> pre.is_trained,
     disk |-> disk, loads |-> loads, ids |-> ids]

AppOutcome(G, req, env) ==
    Outcome(app_run(G, NewThread(view_function(req.method, req.path), req.data), env).th.reply)

IndexOutcome(G, req, env) ==
    Outcome(IF req.method = "GET" THEN do_GET(G, req) ELSE do_POST(G, req, env))

\* C8: started in the same model state, the same request to health, predict,
\* batch_predict or train gets the same status and success/error outcome from
\* the persistent server and from the serverless handler.
C8_Interchangeable ==
    (Handled /\ view_function(request.method, request.path) # "405") =>
        \A env \in Envs(view_function(request.method, request.path), request.data) :
            AppOutcome(PreGlobals, request, env) = IndexOutcome(PreGlobals, request, env)

(***************************************************************************)
(* C10                                                                     *)
(***************************************************************************)
SameObjects ==
    /\ model'.tag = model.tag /\ model'.id = model.id
    /\ vectorizer'.tag = vectorizer.tag /\ vectorizer'.id = vectorizer.id

\* C10 as stated: once the pair is set, no later request of any kind changes
\* which vectorizer or model object the process uses, and load_model runs at
\* most once per process.
C10_PairFrozen ==
    [][(is_trained => SameObjects) /\ loads' <= 1]_vars

\* C10 amended: once the pair is set, no health, predict or batch_predict
\* request changes which vectorizer or model object the process uses; only a
\* train request to the persistent server replaces them; and load_model runs
\* at most once per process.
C10_OnlyTrainReplaces ==
    [][/\ (is_trained /\ ~(fe = "app" /\ request' # None /\ request'.path = "/api/train"))
            => SameObjects
       /\ loads' <= 1]_vars

\* A process with the pair set has answered a predict request.
C10_Witness ==
    /\ Handled /\ request.path = "/api/predict"
    /\ Loaded(pre) /\ is_trained /\ loads = 1
    /\ response.statusCode = 200

(***************************************************************************)
(* C9                                                                      *)
(***************************************************************************)
\* Thread t has called the classifier with features from a vectorizer other
\* than the one the classifier was fitted on, or on an unfitted classifier.
UsedMixedPair(t) == threads[t].pc # "idle" /\ threads[t].mixed

Training(u) == threads[u].route = "train_model" /\ Running(threads[u])

\* C9: predict and batch_predict race with train on the unlocked globals. A
\* prediction comes to use a vectorizer and a model from different trainings
\* only in a process whose is_trained is already true and in which a training
\* run has assigned a global; the witnesses below are such states, reached
\* while the train request is still running.
C9_MixedPairNeedsTraining ==
    \A t \in Threads :
        UsedMixedPair(t) =>
            /\ threads[t].route \in {"predict", "batch_predict"}
            /\ is_trained
            /\ ids >= 1

\* A prediction took its features from the vectorizer the running train has
\* just assigned and classified them with the previous model.
C9_Witness ==
    \E t \in Threads, u \in Threads :
        /\ UsedMixedPair(t)
        /\ threads[t].X = 1
        /\ model.id = 0 /\ model.fitted
        /\ Training(u) /\ threads[u].pc \in {"split", "new_model"}
        /\ ids = 1 /\ is_trained /\ loads = 1

\* A prediction called the new model object before its fit has completed.
C9_WitnessUnfittedModel ==
    \E t \in Threads, u \in Threads :
        /\ UsedMixedPair(t)
        /\ threads[t].X = 1
        /\ model.id = 1 /\ ~model.fitted
        /\ Training(u) /\ threads[u].pc = "fit"
        /\ ids = 1 /\ is_trained

(***************************************************************************)
(* C11 .. C13                                                              *)
(***************************************************************************)
\* The request is an authenticated batch_predict handled with a model loaded
\* and a non-empty list of sequences.
BatchOfItems ==
    /\ Handled /\ request.method = "POST" /\ request.path = "/api/batch_predict"
    /\ Authenticated(request) /\ Loaded(pre)
    /\ get(request.data, "sequences", List(<<>>)).v # <<>>

\* The item would not pass the checks of single predict: it holds a character
\* outside A, T, G, C, or it is shorter than one token.
Unchecked(item) == HasForeignChar(item) \/ Len(Normalized(item)) < K

\* The loaded pair is a fitted vectorizer and a model fitted on its features.
FittedPair(snapshot) ==
    /\ snapshot.vectorizer.fitted /\ snapshot.model.fitted
    /\ snapshot.model.on = snapshot.vectorizer.id

\* C11: an authenticated batch_predict handled with a model loaded and a
\* non-empty list is never answered 400, whatever its items are; with a
\* fitted pair it is answered 200, and every item, those with characters
\* outside A, T, G, C and those shorter than 3 characters included, has its
\* result entry; any other answer is the 500 of a library error.
C11_BatchItemsUnchecked ==
    BatchOfItems =>
        LET sequences == request.data["sequences"].v IN
        /\ response.statusCode \in {200, 500}
        /\ FittedPair(pre) => response.statusCode = 200
        /\ response.statusCode = 200 =>
              /\ response.classified = Len(sequences)
              /\ \A i \in 1..Len(sequences) :
                    /\ response.body.results[i].sequence = Normalized(sequences[i])
                    /\ response.body.results[i].prediction \in {0, 1}
        /\ response.statusCode = 500 =>
              response.body.error \in {"NotFittedError", "ValueError"}

\* A batch of an item with a character outside the alphabet and an item too
\* short for one token was classified, item by item.
C11_Witness ==
    /\ BatchOfItems
    /\ request.data = ("sequences" :> List(<< <<"N", "c", "A">>, <<"c">> >>))
    /\ \A i \in 1..2 : Unchecked(request.data["sequences"].v[i])
    /\ response.statusCode = 200
    /\ response.classified = 2
    /\ response.body.results[1].sequence = <<"N", "C", "A">>

\* The persistent server has answered a train request with an error.
FailedTrain ==
    /\ Handled /\ fe = "app"
    /\ request.method = "POST" /\ request.path = "/api/train"
    /\ response.statusCode \in {400, 500}

\* C12: a train request answered 400 or 500 leaves model, vectorizer and
\* is_trained exactly as they were before the request.
C12_FailedTrainNoEffect == FailedTrain => Snapshot(Globals) = pre

\* C13: in every state of the server, between any two steps of its request
\* threads, is_trained = true implies that model and vectorizer are both
\* set, and is_trained never goes back from true to false.
C13_TrainedHasPair ==
    /\ [](is_trained => (model # None /\ vectorizer # None))
    /\ [][is_trained => is_trained']_vars

\* With a pair loaded, one train request has failed and another has just
\* replaced the model by an unfitted one.
C13_Witness ==
    /\ fe = "app" /\ threads # None /\ is_trained /\ loads = 1
    /\ \E t, u \in Threads :
          /\ threads[t].route = "train_model" /\ threads[t].pc = "done"
          /\ threads[t].reply.statusCode = 500
          /\ threads[u].route = "train_model" /\ threads[u].pc = "fit"
          /\ ~model.fitted

====
